---- MODULE Spec2Model ----
(***************************************************************************)
(* Linked File Sync Updater: the change detection and reload scheduling    *)
(* of src/__init__.py.                                                     *)
(*                                                                         *)
(* Time is counted in tenths of a second, so the 0.2 s of the aggressive   *)
(* poll loop is 2 and the default interval of 1.0 s is 10.  The fields of  *)
(* the property group are modelled as plain storage: a field holds the     *)
(* value last assigned to it.                                              *)
(***************************************************************************)
EXTENDS Integers, Sequences, FiniteSets, TLC

\* ------------------------------------------------------------------ bounds
MaxTime == 1            \* the clock runs over 0..MaxTime

\* --------------------------------------------------------- program constants
DefaultInterval == 10   \* check_interval default=1.0
AggressiveDelay == 2    \* the 0.2 returned in aggressive mode

\* ------------------------------------------------------------- input sets
Libs == {1, 2}          \* bpy.data.libraries, iterated in this order
Paths == {"/r/a", "/r/b"}
NoPath == ""
\* What lib.filepath may hold: empty, relative to the blend file, absolute.
RawPaths == [x \in Libs |-> IF x = 1 THEN {NoPath, "//a"} ELSE {"/r/a", "/r/b"}]
\* Stamps and sizes are only ever compared in pairs, the cached value with the
\* fresh one: two values of each give every outcome of > and of #.
Mtimes == {100, 101}
Sizes == {50, 60}
Intervals == {1, DefaultInterval}
Modes == {"DIRECT", "AGGRESSIVE"}

\* A file of the disk: missing, present but failing os.stat, or present.
\* /r/a is rewritten, removed and made unreadable; /r/b is touched and removed.
Missing == [st |-> "missing", mtime |-> 0, size |-> 0]
NoStat == [st |-> "nostat", mtime |-> 0, size |-> 0]
Present(m, s) == [st |-> "ok", mtime |-> m, size |-> s]
FileStates ==
    [p \in Paths |->
        IF p = "/r/a"
        THEN {Missing, NoStat} \cup {Present(m, s) : m \in Mtimes, s \in Sizes}
        ELSE {Missing} \cup {Present(m, 50) : m \in Mtimes}]

NoEntry == [library |-> 0]      \* the path is no key of the dict
None == [none |-> TRUE]

VARIABLES
    linked_files,   \* the module-level cache: path -> entry or NoEntry
    props,          \* LinkedFileProperties
    now,            \* time.time()
    libPath,        \* lib.filepath of every library
    fs,             \* the files on disk
    out             \* what the last operation did: reloads, reports, redraw

vars == <<linked_files, props, now, libPath, fs, out>>

\* bpy.path.abspath: "//" is the directory of the blend file, /r here.
abspath(raw) == IF raw = "//a" THEN "/r/a" ELSE raw

\* os.path.exists
exists(F, p) == p \in Paths /\ F[p].st # "missing"

\* Mutation of get_direct_file_info: a failing os.stat yields zeroes, not None.
get_direct_file_info_zeroes(F, p) ==
    [mtime |-> F[p].mtime, size |-> F[p].size]

\* get_direct_file_info: the stat result, or None when os.stat raises.
get_direct_file_info(F, p) ==
    IF F[p].st = "ok" THEN [mtime |-> F[p].mtime, size |-> F[p].size] ELSE None

EmptyWatchSet == [p \in Paths |-> NoEntry]

\* The loop body of get_linked_files for library lib, on the dict acc.
AddLibrary(acc, L, F, lib) ==
    IF L[lib] # NoPath
    THEN LET filepath == abspath(L[lib]) IN
         IF exists(F, filepath)
         THEN LET file_info == get_direct_file_info(F, filepath) IN
              IF file_info # None
              THEN [acc EXCEPT ![filepath] =
                       [library |-> lib,
                        last_modified |-> file_info.mtime,
                        size |-> file_info.size,
                        lib_name |-> lib]]
              ELSE acc
         ELSE acc
    ELSE acc

RECURSIVE LinkedFilesFrom(_, _, _, _)
LinkedFilesFrom(acc, L, F, lib) ==
    IF lib \notin Libs THEN acc
    ELSE LinkedFilesFrom(AddLibrary(acc, L, F, lib), L, F, lib + 1)

\* get_linked_files(): a dict built from nothing but the libraries and the disk.
get_linked_files(L, F) == LinkedFilesFrom(EmptyWatchSet, L, F, 1)

\* The iteration order of that dict: keys in order of first insertion.
RECURSIVE KeyOrderFrom(_, _, _, _)
KeyOrderFrom(keys, L, F, lib) ==
    IF lib \notin Libs THEN keys
    ELSE LET after == AddLibrary(EmptyWatchSet, L, F, lib)
             new == {p \in Paths : after[p] # NoEntry}
             seen == {keys[i] : i \in 1..Len(keys)}
         IN KeyOrderFrom(IF new \subseteq seen THEN keys
                         ELSE keys \o <<CHOOSE p \in new : TRUE>>,
                         L, F, lib + 1)

KeyOrder(L, F) == KeyOrderFrom(<<>>, L, F, 1)

\* ------------------------------------------------------- change detection
\* Mutation of Changed: an equal stamp counts as a change.
ChangedOrEqual(data, old_info) ==
    \/ data.last_modified >= old_info.last_modified
    \/ data.size # old_info.size

\* Mutation of Changed: the size is not looked at.
ChangedMtimeOnly(data, old_info) ==
    data.last_modified > old_info.last_modified

\* "Check if file changed (time or size)"
Changed(data, old_info) ==
    \/ data.last_modified > old_info.last_modified
    \/ data.size # old_info.size

\* What a dispatch loop has done so far.
\* reloaded: the reload() calls made; failed: those that raised; updated: the
\* names appended to the result; logged: the names of the error prints;
\* raised: an exception left the loop.
NoDispatch ==
    [reloaded |-> <<>>, failed |-> <<>>, updated |-> <<>>, logged |-> <<>>,
     raised |-> FALSE]

\* Mutation of ReloadLogged: the try/except is missing, a raising reload()
\* leaves the loop.
ReloadUncaught(acc, filepath, data, bad) ==
    LET called == [acc EXCEPT !.reloaded = Append(@, <<filepath, data.library>>)] IN
    IF data.library \in bad
    THEN [called EXCEPT !.failed = Append(@, data.library), !.raised = TRUE]
    ELSE [called EXCEPT !.updated = Append(@, data.lib_name)]

\* try: data["library"].reload(); updated_files.append(lib_name)
\* except Exception as e: print("Error updating ...")
\* bad is the set of libraries whose reload() raises.
ReloadLogged(acc, filepath, data, bad) ==
    LET called == [acc EXCEPT !.reloaded = Append(@, <<filepath, data.library>>)] IN
    IF data.library \in bad
    THEN [called EXCEPT !.failed = Append(@, data.library),
                        !.logged = Append(@, data.lib_name)]
    ELSE [called EXCEPT !.updated = Append(@, data.lib_name)]

\* try: data["library"].reload(); updated.append(...)   except: pass
ReloadSilent(acc, filepath, data, bad) ==
    LET called == [acc EXCEPT !.reloaded = Append(@, <<filepath, data.library>>)] IN
    IF data.library \in bad
    THEN [called EXCEPT !.failed = Append(@, data.library)]
    ELSE [called EXCEPT !.updated = Append(@, data.lib_name)]

\* for filepath, data in current_linked_files.items(): ... of update_linked_files.
\* An exception that left the loop body would end the loop.
RECURSIVE UpdateLoop(_, _, _, _, _, _)
UpdateLoop(acc, keys, i, current, cache, bad) ==
    IF i > Len(keys) \/ acc.raised THEN acc
    ELSE LET filepath == keys[i]
             data == current[filepath]
             next == IF cache[filepath] # NoEntry /\ Changed(data, cache[filepath])
                     THEN ReloadLogged(acc, filepath, data, bad)
                     ELSE acc
         IN UpdateLoop(next, keys, i + 1, current, cache, bad)

\* Mutation of update_linked_files: the cache is kept when a reload() raised,
\* so that the next check tries again.
update_retrying(cache, L, F, bad) ==
    LET current_linked_files == get_linked_files(L, F)
        done == UpdateLoop(NoDispatch, KeyOrder(L, F), 1, current_linked_files, cache, bad)
    IN [cache |-> IF done.failed # <<>> THEN cache ELSE current_linked_files,
        done |-> done]

\* Mutation of update_linked_files: the fresh dict is merged into the cache.
update_merging(cache, L, F, bad) ==
    LET current_linked_files == get_linked_files(L, F)
        done == UpdateLoop(NoDispatch, KeyOrder(L, F), 1, current_linked_files, cache, bad)
    IN [cache |-> [p \in Paths |-> IF current_linked_files[p] = NoEntry
                                   THEN cache[p] ELSE current_linked_files[p]],
        done |-> done]

\* update_linked_files(): the dispatch and the dict that becomes linked_files.
update_linked_files(cache, L, F, bad) ==
    LET current_linked_files == get_linked_files(L, F)
        done == UpdateLoop(NoDispatch, KeyOrder(L, F), 1, current_linked_files, cache, bad)
    IN [cache |-> IF done.raised THEN cache ELSE current_linked_files, done |-> done]

\* for filepath, data in fresh_files.items(): ... of poll_files.
RECURSIVE PollLoop(_, _, _, _, _, _)
PollLoop(acc, keys, i, fresh, cache, bad) ==
    IF i > Len(keys) \/ acc.raised THEN acc
    ELSE LET filepath == keys[i]
             data == fresh[filepath]
             next == IF cache[filepath] # NoEntry /\ Changed(data, cache[filepath])
                     THEN ReloadSilent(acc, filepath, data, bad)
                     ELSE acc
         IN PollLoop(next, keys, i + 1, fresh, cache, bad)

\* poll_files(): works in aggressive mode only.
poll_files(cache, L, F, mode, bad) ==
    IF mode = "AGGRESSIVE"
    THEN LET fresh_files == get_linked_files(L, F)
             done == PollLoop(NoDispatch, KeyOrder(L, F), 1, fresh_files, cache, bad)
         IN [cache |-> IF done.raised THEN cache ELSE fresh_files, done |-> done]
    ELSE [cache |-> cache, done |-> NoDispatch]

\* Mutation of ReloadAllLoop: the last entry of the dict is not reached.
ReloadAllButLast(acc, keys, i, current, bad) ==
    [reloaded |-> IF Len(keys) > 1
                  THEN <<<<keys[1], current[keys[1]].library>>>> ELSE <<>>,
     failed |-> IF Len(keys) > 1 /\ current[keys[1]].library \in bad
                THEN <<current[keys[1]].library>> ELSE <<>>,
     updated |-> IF Len(keys) > 1 /\ current[keys[1]].library \notin bad
                 THEN <<current[keys[1]].lib_name>> ELSE <<>>,
     logged |-> IF Len(keys) > 1 /\ current[keys[1]].library \in bad
                THEN <<current[keys[1]].lib_name>> ELSE <<>>,
     raised |-> FALSE]

\* for filepath, data in linked_files.items(): ... of Update All.
RECURSIVE ReloadAllLoop(_, _, _, _, _)
ReloadAllLoop(acc, keys, i, current, bad) ==
    IF i > Len(keys) \/ acc.raised THEN acc
    ELSE ReloadAllLoop(ReloadLogged(acc, keys[i], current[keys[i]], bad),
                       keys, i + 1, current, bad)

Range(seq) == {seq[i] : i \in 1..Len(seq)}

\* The libraries a dispatch called reload() on.
Called(done) == {done.reloaded[i][2] : i \in 1..Len(done.reloaded)}

\* ---------------------------------------------------------------- the timer
\* Mutation of TickBranch: the monitoring flag is not looked at.
TickBranchUnguarded(p, t) ==
    IF t - p.last_check_time >= p.check_interval THEN "full"
    ELSE IF p.watch_mode = "AGGRESSIVE" THEN "poll"
    ELSE "none"

\* Mutation of TickBranch: the interval must be exceeded, not reached.
TickBranchStrict(p, t) ==
    IF ~p.is_monitoring THEN "idle"
    ELSE IF t - p.last_check_time > p.check_interval THEN "full"
    ELSE IF p.watch_mode = "AGGRESSIVE" THEN "poll"
    ELSE "none"

\* Mutation of TickBranch: the interval is not looked at.
TickBranchNoInterval(p, t) ==
    IF ~p.is_monitoring THEN "idle" ELSE "full"

\* Which branch check_linked_files takes at time t.
TickBranch(p, t) ==
    IF ~p.is_monitoring THEN "idle"
    ELSE IF t - p.last_check_time >= p.check_interval THEN "full"
    ELSE IF p.watch_mode = "AGGRESSIVE" THEN "poll"
    ELSE "none"

\* Mutation of TickProps: a lightweight poll stamps last_check_time too.
TickPropsAlways(p, t, branch) ==
    IF branch \in {"full", "poll"} THEN [p EXCEPT !.last_check_time = t] ELSE p

\* props.last_check_time = current_time, in the interval branch alone.
TickProps(p, t, branch) ==
    IF branch = "full" THEN [p EXCEPT !.last_check_time = t] ELSE p

\* Mutation of NextDelay: the configured interval in either mode.
NextDelayInterval(p) == p.check_interval

\* return 0.2 if props.watch_mode == 'AGGRESSIVE' else props.check_interval
NextDelay(p) ==
    IF p.watch_mode = "AGGRESSIVE" THEN AggressiveDelay ELSE p.check_interval

\* The value check_linked_files returns.
TickReturn(p, branch) ==
    IF branch = "idle" THEN p.check_interval ELSE NextDelay(p)

\* if updated_files: ... bpy.ops.wm.redraw_timer(...)
TickRedraw(updated_files) == updated_files # <<>>

Result(op, done, redraw, ret) ==
    [op |-> op, reloaded |-> done.reloaded, failed |-> done.failed,
     updated |-> done.updated, logged |-> done.logged, raised |-> done.raised,
     redraw |-> redraw, ret |-> ret]

Quiet == Result("none", NoDispatch, FALSE, 0)

\* What the branch does to linked_files, and its dispatch.
TickCheck(branch, cache, mode, L, F, bad) ==
    IF branch = "full" THEN update_linked_files(cache, L, F, bad)
    ELSE IF branch = "poll" THEN poll_files(cache, L, F, mode, bad)
    ELSE [cache |-> cache, done |-> NoDispatch]

\* bad: the libraries whose reload() raises, among those the tick calls.
check_linked_files ==
    \E branch \in {TickBranch(props, now)} :
    \E dry \in {TickCheck(branch, linked_files, props.watch_mode, libPath, fs, {})} :
    \E bad \in SUBSET Called(dry.done) :
    \E r \in {TickCheck(branch, linked_files, props.watch_mode, libPath, fs, bad)} :
        /\ props' = TickProps(props, now, branch)
        /\ linked_files' = r.cache
        /\ out' = Result("tick", r.done, TickRedraw(r.done.updated),
                         TickReturn(props, branch))
        /\ UNCHANGED <<now, libPath, fs>>

\* ------------------------------------------------------------ the operators
\* Mutation of ToggleProps: starting does not stamp last_check_time.
ToggleNoStamp(p, t) == [p EXCEPT !.is_monitoring = ~p.is_monitoring]

\* LINKED_FILE_OT_toggle_monitoring.execute: the property group afterwards.
ToggleProps(p, t) ==
    IF ~p.is_monitoring
    THEN [p EXCEPT !.is_monitoring = TRUE, !.last_check_time = t]
    ELSE [p EXCEPT !.is_monitoring = FALSE]

\* Mutation of ToggleCache: starting keeps the cache of the last run.
ToggleCacheKept(p, cache, L, F) == cache

\* LINKED_FILE_OT_toggle_monitoring.execute: linked_files afterwards.
ToggleCache(p, cache, L, F) ==
    IF ~p.is_monitoring THEN get_linked_files(L, F) ELSE cache

toggle_monitoring ==
    /\ props' = ToggleProps(props, now)
    /\ linked_files' = ToggleCache(props, linked_files, libPath, fs)
    /\ out' = Result("toggle", NoDispatch, FALSE, 0)
    /\ UNCHANGED <<now, libPath, fs>>

\* LINKED_FILE_OT_force_check.execute
force_check ==
    \E dry \in {update_linked_files(linked_files, libPath, fs, {})} :
    \E bad \in SUBSET Called(dry.done) :
    \E r \in {update_linked_files(linked_files, libPath, fs, bad)} :
        /\ linked_files' = r.cache
        /\ out' = Result("force_check", r.done, FALSE, 0)
        /\ UNCHANGED <<props, now, libPath, fs>>

\* Mutation of manual_update: Update All stamps last_check_time as well.
manual_update_stamping ==
    /\ linked_files' = get_linked_files(libPath, fs)
    /\ props' = [props EXCEPT !.last_check_time = now]
    /\ out' = Result("manual_update",
                     ReloadAllLoop(NoDispatch, KeyOrder(libPath, fs), 1,
                                   get_linked_files(libPath, fs), {}),
                     FALSE, 0)
    /\ UNCHANGED <<now, libPath, fs>>

\* LINKED_FILE_OT_manual_update.execute
manual_update ==
    \E current \in {get_linked_files(libPath, fs)} :
    \E keys \in {KeyOrder(libPath, fs)} :
    \E bad \in SUBSET {current[p].library : p \in Range(keys)} :
    \E done \in {ReloadAllLoop(NoDispatch, keys, 1, current, bad)} :
        /\ linked_files' = current
        /\ out' = Result("manual_update", done, FALSE, 0)
        /\ UNCHANGED <<props, now, libPath, fs>>

\* The panel's check_interval and watch_mode fields.
SetInterval ==
    \E i \in Intervals :
        /\ props' = [props EXCEPT !.check_interval = i]
        /\ out' = Quiet
        /\ UNCHANGED <<linked_files, now, libPath, fs>>

SetMode ==
    \E m \in Modes :
        /\ props' = [props EXCEPT !.watch_mode = m]
        /\ out' = Quiet
        /\ UNCHANGED <<linked_files, now, libPath, fs>>

\* ---------------------------------------------------------- the environment
Advance ==
    /\ now < MaxTime
    /\ now' = now + 1
    /\ out' = Quiet
    /\ UNCHANGED <<linked_files, props, libPath, fs>>

\* A file is written, removed, or made to fail os.stat.
ChangeFile ==
    \E p \in Paths : \E f \in FileStates[p] :
        /\ fs' = [fs EXCEPT ![p] = f]
        /\ out' = Quiet
        /\ UNCHANGED <<linked_files, props, now, libPath>>

\* A library is linked, relinked or loses its path.
Relink ==
    \E lib \in Libs : \E raw \in RawPaths[lib] :
        /\ libPath' = [libPath EXCEPT ![lib] = raw]
        /\ out' = Quiet
        /\ UNCHANGED <<linked_files, props, now, fs>>

\* The state after register(): the cache empty, the property group at its
\* defaults.  last_check_time is read only while monitoring runs, and starting
\* stamps it, so the origin of the clock does not matter.
Init ==
    /\ linked_files = EmptyWatchSet
    /\ props = [check_interval |-> DefaultInterval, is_monitoring |-> FALSE,
                last_check_time |-> 0, watch_mode |-> "AGGRESSIVE"]
    /\ now = 0
    /\ libPath = [lib \in Libs |-> IF lib = 1 THEN NoPath ELSE "/r/b"]
    /\ fs \in [Paths -> {Missing}]
    /\ out = Quiet

Next ==
    \/ check_linked_files
    \/ toggle_monitoring
    \/ force_check
    \/ manual_update
    \/ SetInterval
    \/ SetMode
    \/ Advance
    \/ ChangeFile
    \/ Relink

Spec == Init /\ [][Next]_vars

\* register() leaves check_linked_files on a persistent timer that calls it
\* again after every delay it returns, and the clock moves on.
\* For what the timer reaches in the end, one linked file is watched: /r/a,
\* through library 1, with every operation of the program as before.
WatchedChangeFile ==
    \E f \in FileStates["/r/a"] :
        /\ fs' = [fs EXCEPT !["/r/a"] = f]
        /\ out' = Quiet
        /\ UNCHANGED <<linked_files, props, now, libPath>>

WatchedRelink ==
    \E raw \in RawPaths[1] :
        /\ libPath' = [libPath EXCEPT ![1] = raw]
        /\ out' = Quiet
        /\ UNCHANGED <<linked_files, props, now, fs>>

LiveNext ==
    \/ check_linked_files
    \/ toggle_monitoring
    \/ force_check
    \/ manual_update
    \/ SetInterval
    \/ SetMode
    \/ Advance
    \/ WatchedChangeFile
    \/ WatchedRelink

LiveSpec ==
    Init /\ [][LiveNext]_vars /\ WF_vars(check_linked_files) /\ WF_vars(Advance)

\* ======================================================================
\* Properties
\* ======================================================================
\* The snapshot a check of the current state would build.
Fresh == get_linked_files(libPath, fs)

\* The paths of both dicts whose stamp grew or whose size differs.
ChangedPaths(cache, fresh) ==
    {p \in Paths : /\ cache[p] # NoEntry
                   /\ fresh[p] # NoEntry
                   /\ \/ fresh[p].last_modified > cache[p].last_modified
                      \/ fresh[p].size # cache[p].size}

EntryPaths(d) == {p \in Paths : d[p] # NoEntry}

ReloadedPaths(o) == {o.reloaded[i][1] : i \in 1..Len(o.reloaded)}

Running == props.is_monitoring
Due == now - props.last_check_time >= props.check_interval

\* The step is a check: a full check or a lightweight poll of the timer, or
\* Check Now.
CheckStep ==
    \/ out'.op = "force_check"
    \/ out'.op = "tick" /\ Running /\ (Due \/ props.watch_mode = "AGGRESSIVE")

\* C1: a check calls reload() for exactly the paths that are in the cache and
\* in the fresh snapshot with a greater mtime or a different size, on the
\* library of the fresh entry; a path of only one of the two is not reloaded.
C1_ReloadsExactlyChanged ==
    [][CheckStep =>
          /\ ReloadedPaths(out') = ChangedPaths(linked_files, Fresh)
          /\ \A i \in 1..Len(out'.reloaded) :
                out'.reloaded[i][2] = Fresh[out'.reloaded[i][1]].library
          /\ \A p \in Paths :
                (linked_files[p] = NoEntry \/ Fresh[p] = NoEntry)
                    => p \notin ReloadedPaths(out')]_vars

\* A check reloaded one entry and left another cached entry alone.
C1_Witness ==
    /\ out.op \in {"tick", "force_check"}
    /\ Len(out.reloaded) = 1
    /\ \E p \in EntryPaths(linked_files) : p \notin ReloadedPaths(out)

\* C2: while is_monitoring is false a tick reloads nothing, requests no
\* redraw, leaves linked_files and the property group as they are and returns
\* the configured interval.
C2_StoppedTickIdle ==
    [][(out'.op = "tick" /\ ~Running) =>
          /\ out'.reloaded = <<>>
          /\ ~out'.redraw
          /\ linked_files' = linked_files
          /\ props' = props
          /\ out'.ret = props.check_interval]_vars

\* A stopped tick ran while a cached file had changed on disk.
C2_Witness ==
    /\ out.op = "tick"
    /\ ~Running
    /\ ChangedPaths(linked_files, Fresh) # {}

\* C3: when monitoring runs and the interval has elapsed, a tick stamps
\* last_check_time = now, reloads the changed entries and leaves linked_files
\* equal to the fresh snapshot; in DIRECT mode it returns the interval.
C3_FullCheck ==
    [][(out'.op = "tick" /\ Running /\ Due) =>
          /\ props' = [props EXCEPT !.last_check_time = now]
          /\ ReloadedPaths(out') = ChangedPaths(linked_files, Fresh)
          /\ linked_files' = Fresh
          /\ (props.watch_mode = "DIRECT" => out'.ret = props.check_interval)]_vars

\* A DIRECT tick reloaded something: only the full check does that.
C3_Witness ==
    /\ out.op = "tick"
    /\ Running
    /\ props.watch_mode = "DIRECT"
    /\ out.reloaded # <<>>
    /\ props.last_check_time = now
    /\ now > 0

\* C4: when monitoring runs in AGGRESSIVE mode and the interval has not
\* elapsed, a tick reloads the changed entries, leaves linked_files equal to
\* the fresh snapshot, leaves last_check_time alone and returns 0.2.
C4_LightweightPoll ==
    [][(out'.op = "tick" /\ Running /\ ~Due /\ props.watch_mode = "AGGRESSIVE") =>
          /\ ReloadedPaths(out') = ChangedPaths(linked_files, Fresh)
          /\ linked_files' = Fresh
          /\ props' = props
          /\ out'.ret = AggressiveDelay]_vars

\* A poll reloaded something some time after the last full check.
C4_Witness ==
    /\ out.op = "tick"
    /\ Running
    /\ props.watch_mode = "AGGRESSIVE"
    /\ out.reloaded # <<>>
    /\ props.last_check_time < now

\* C5: when monitoring runs in DIRECT mode and the interval has not elapsed,
\* a tick reloads nothing, requests no redraw and leaves linked_files and the
\* property group as they are.
C5_DirectWaits ==
    [][(out'.op = "tick" /\ Running /\ ~Due /\ props.watch_mode = "DIRECT") =>
          /\ out'.reloaded = <<>>
          /\ ~out'.redraw
          /\ linked_files' = linked_files
          /\ props' = props]_vars

\* Such a tick ran while a cached file had changed on disk.
C5_Witness ==
    /\ out.op = "tick"
    /\ Running
    /\ ~Due
    /\ props.watch_mode = "DIRECT"
    /\ ChangedPaths(linked_files, Fresh) # {}

\* C6 as claimed: every tick returns 0.2 in AGGRESSIVE mode and the interval
\* otherwise.  (A tick changes neither watch_mode nor check_interval.)
C6_DelayByModeAlone ==
    out.op = "tick" =>
        out.ret = IF props.watch_mode = "AGGRESSIVE" THEN AggressiveDelay
                  ELSE props.check_interval

\* C6 amended: a tick while monitoring runs returns 0.2 in AGGRESSIVE mode
\* whatever the interval and the branch, and the interval in DIRECT mode; a
\* tick while monitoring is stopped returns the interval in either mode.
C6_Delay ==
    out.op = "tick" =>
        out.ret = IF ~props.is_monitoring THEN props.check_interval
                  ELSE IF props.watch_mode = "AGGRESSIVE" THEN AggressiveDelay
                  ELSE props.check_interval

\* A running AGGRESSIVE tick returned 0.2 under an interval that is not 0.2.
C6_Witness ==
    /\ out.op = "tick"
    /\ Running
    /\ props.watch_mode = "AGGRESSIVE"
    /\ out.ret = AggressiveDelay
    /\ props.check_interval # AggressiveDelay

\* The reload() calls an operation is to make in the current state.
Expected(op) ==
    IF op = "manual_update" THEN EntryPaths(Fresh)
    ELSE IF op = "force_check" THEN ChangedPaths(linked_files, Fresh)
    ELSE IF op = "tick" /\ Running /\ (Due \/ props.watch_mode = "AGGRESSIVE")
    THEN ChangedPaths(linked_files, Fresh)
    ELSE {}

\* C7: in a tick, Check Now and Update All, whatever reload() raises, every
\* entry of the dispatch gets its reload() call, the names reported as updated
\* are those of the calls that did not raise, and no exception leaves the
\* operation.
C7_FailureIsolation ==
    [][(out'.op \in {"tick", "force_check", "manual_update"}) =>
          /\ ~out'.raised
          /\ ReloadedPaths(out') = Expected(out'.op)
          /\ Len(out'.reloaded) = Cardinality(Expected(out'.op))
          /\ Range(out'.updated) =
                {Fresh[p].lib_name : p \in Expected(out'.op)} \ Range(out'.failed)
          /\ Len(out'.updated) + Len(out'.failed) = Len(out'.reloaded)]_vars

\* The first reload() of a dispatch raised and a later one went through.
C7_Witness ==
    /\ out.op \in {"tick", "force_check", "manual_update"}
    /\ Len(out.reloaded) = 2
    /\ out.failed = <<out.reloaded[1][2]>>
    /\ out.updated = <<out.reloaded[2][2]>>

\* C8 as claimed: every reload() that raises is logged, by name, in the
\* operation that called it.
C8_FailuresLogged ==
    out.op \in {"tick", "force_check", "manual_update"} =>
        Range(out.failed) \subseteq Range(out.logged)

\* C9 as claimed: an operation with a successful reload requests a redraw,
\* and a tick without one requests none.
C9_RedrawOnSuccess ==
    /\ out.op \in {"tick", "force_check", "manual_update"} =>
          (out.updated # <<>> => out.redraw)
    /\ out.op = "tick" => (out.updated = <<>> => ~out.redraw)

\* C10: monitoring starts stopped; the toggle from stopped sets is_monitoring,
\* makes linked_files the fresh snapshot, calls no reload() and stamps
\* last_check_time = now; the toggle from running clears is_monitoring and
\* nothing else; no toggle changes check_interval or watch_mode.
C10_StartStop ==
    /\ ~props.is_monitoring
    /\ [][(out'.op = "toggle") =>
             /\ out'.reloaded = <<>>
             /\ props'.check_interval = props.check_interval
             /\ props'.watch_mode = props.watch_mode
             /\ ~Running =>
                   /\ props' = [props EXCEPT !.is_monitoring = TRUE,
                                             !.last_check_time = now]
                   /\ linked_files' = Fresh
             /\ Running =>
                   /\ props' = [props EXCEPT !.is_monitoring = FALSE]
                   /\ linked_files' = linked_files]_vars

\* Monitoring was started some time after time 0, over a linked file.
C10_Witness ==
    /\ out.op = "toggle"
    /\ Running
    /\ EntryPaths(linked_files) # {}
    /\ props.last_check_time = now
    /\ now > 0

\* C11 as claimed: Check Now, in any monitoring state and mode, does what the
\* full check of a tick does: it stamps last_check_time = now, reloads the
\* entries changed against the cache and makes linked_files the fresh snapshot.
C11_ForceCheckIsFullCheck ==
    [][(out'.op = "force_check") =>
          /\ props' = [props EXCEPT !.last_check_time = now]
          /\ ReloadedPaths(out') = ChangedPaths(linked_files, Fresh)
          /\ linked_files' = Fresh]_vars

C13_UpdateAll ==
    [][(out'.op = "manual_update") =>
          /\ ReloadedPaths(out') = EntryPaths(Fresh)
          /\ Len(out'.reloaded) = Cardinality(EntryPaths(Fresh))
          /\ \A i \in 1..Len(out'.reloaded) :
                out'.reloaded[i][2] = Fresh[out'.reloaded[i][1]].library
          /\ Range(out'.updated) = Called(out') \ Range(out'.failed)
          /\ Len(out'.updated) = Len(out'.reloaded) - Len(out'.failed)]_vars

\* Update All, with monitoring stopped, reloaded two entries, one of them
\* raising.
C13_Witness ==
    /\ out.op = "manual_update"
    /\ ~Running
    /\ Len(out.reloaded) = 2
    /\ Len(out.failed) = 1
    /\ Len(out.updated) = 1

\* A check, Check Now, the start of monitoring or Update All ran: the steps
\* that rebuild linked_files.
RebuildStep ==
    \/ CheckStep
    \/ out'.op = "manual_update"
    \/ out'.op = "toggle" /\ ~Running

\* C14: a check made while linked_files still equals what a snapshot of the
\* libraries and the disk gives (nothing changed since a check replaced it)
\* calls no reload() and leaves linked_files as it is; every check leaves
\* linked_files in that condition; so a check that follows a check directly
\* reloads nothing.
C14_NoDuplicateReloads ==
    [][/\ (CheckStep /\ linked_files = Fresh)
              => /\ out'.reloaded = <<>>
                 /\ linked_files' = linked_files
       /\ CheckStep => linked_files' = get_linked_files(libPath', fs')
       /\ (CheckStep /\ (out.op = "force_check"
                          \/ (out.op = "tick" /\ Running
                                /\ props.watch_mode = "AGGRESSIVE")))
              => /\ out'.reloaded = <<>>
                 /\ linked_files' = linked_files]_vars

\* A check found a cached, unchanged entry and reloaded nothing.
C14_Witness ==
    /\ out.op \in {"tick", "force_check"}
    /\ out.reloaded = <<>>
    /\ EntryPaths(linked_files) # {}
    /\ linked_files = Fresh
    /\ out.op = "tick" => (Running /\ props.watch_mode = "AGGRESSIVE")

\* The libraries whose path resolves to p.
LinkedTo(p) == {lib \in Libs : libPath[lib] # NoPath /\ abspath(libPath[lib]) = p}

\* C15: the dict a rebuild leaves has an entry for exactly the paths that
\* some library with a non-empty path resolves to and whose file exists and
\* can be probed; the entry holds the probed mtime and size and one of those
\* libraries; its keys are iterated once each; nothing else is in it.
C15_SnapshotContents ==
    [][RebuildStep =>
          /\ \A p \in Paths :
                /\ linked_files'[p] # NoEntry <=> (LinkedTo(p) # {} /\ fs[p].st = "ok")
                /\ linked_files'[p] # NoEntry =>
                      /\ linked_files'[p].last_modified = fs[p].mtime
                      /\ linked_files'[p].size = fs[p].size
                      /\ linked_files'[p].library \in LinkedTo(p)
          /\ Range(KeyOrder(libPath, fs)) = EntryPaths(linked_files')
          /\ Len(KeyOrder(libPath, fs)) = Cardinality(EntryPaths(linked_files'))]_vars

\* A rebuild left out /r/a, linked by library 1 but failing os.stat, and
\* kept /r/b.
C15_Witness ==
    /\ out.op \in {"toggle", "manual_update", "force_check"}
    /\ out.op = "toggle" => Running
    /\ libPath[1] = "//a"
    /\ fs["/r/a"] = NoStat
    /\ linked_files["/r/a"] = NoEntry
    /\ linked_files["/r/b"] # NoEntry

\* The cached file at p has changed on disk, monitoring runs, and the clock
\* of the model reaches the next full check unless the mode polls anyway.
Pending(p) ==
    /\ Running
    /\ p \in ChangedPaths(linked_files, Fresh)
    /\ \/ props.watch_mode = "AGGRESSIVE"
       \/ props.last_check_time + props.check_interval <= MaxTime

\* The file was changed again, unlinked or removed, monitoring was toggled or
\* the settings were changed: the situation of C16 is over.
Withdrawn(p) == ~Pending(p) /\ out.op \in {"none", "toggle"}

\* The path LiveSpec watches.
Watched == "/r/a"

\* C16 as claimed: once a cached file has changed, a later tick calls the
\* reload() of its entry, as long as monitoring runs and the file stays.
C16_TickReloads ==
    Pending(Watched) ~>
        ((out.op = "tick" /\ Watched \in ReloadedPaths(out)) \/ Withdrawn(Watched))

\* C16 amended: once a cached file has changed, a later tick, or a Check Now
\* or Update All run before it, calls the reload() of its entry, as long as
\* monitoring runs and the file stays.
C16_ChangeReloaded ==
    Pending(Watched) ~> (Watched \in ReloadedPaths(out) \/ Withdrawn(Watched))

\* A tick in DIRECT mode reloaded the changed file once the interval elapsed.
C16_Witness ==
    /\ out.op = "tick"
    /\ Running
    /\ props.watch_mode = "DIRECT"
    /\ Watched \in ReloadedPaths(out)
    /\ props.last_check_time = MaxTime


\* C17: a check in which a reload() raised still makes linked_files the
\* fresh snapshot, with the new mtime and size of that entry, and a check
\* that follows it directly calls no reload().
C17_NoRetry ==
    [][/\ (CheckStep /\ out'.failed # <<>>)
              => /\ ~out'.raised
                 /\ linked_files' = Fresh
                 /\ \A i \in 1..Len(out'.reloaded) :
                       LET p == out'.reloaded[i][1] IN
                       /\ linked_files'[p].last_modified = fs[p].mtime
                       /\ linked_files'[p].size = fs[p].size
       /\ (CheckStep /\ out.op \in {"tick", "force_check"} /\ out.failed # <<>>)
              => out'.reloaded = <<>>]_vars

\* A check whose only reload() raised left the changed stamp in the cache.
C17_Witness ==
    /\ out.op \in {"tick", "force_check"}
    /\ Len(out.reloaded) = 1
    /\ Len(out.failed) = 1
    /\ linked_files[out.reloaded[1][1]].last_modified = fs[out.reloaded[1][1]].mtime
    /\ fs[out.reloaded[1][1]].mtime = 101

\* C18: starting monitoring makes linked_files the fresh snapshot and calls
\* no reload(), and Update All makes linked_files the fresh snapshot; a tick
\* that follows either directly, or runs while linked_files still equals the
\* snapshot of the libraries and the disk, calls no reload().
C18_RebaselineWithoutReload ==
    [][/\ (out'.op = "toggle" /\ ~Running)
              => /\ out'.reloaded = <<>>
                 /\ linked_files' = Fresh
       /\ (out'.op = "manual_update") => linked_files' = Fresh
       /\ (out'.op = "tick"
           /\ ((out.op = "toggle" /\ Running) \/ out.op = "manual_update"))
              => out'.reloaded = <<>>
       /\ (out'.op = "tick" /\ linked_files = Fresh) => out'.reloaded = <<>>]_vars

\* Monitoring was started, after time 0, over a file that carries the later
\* stamp and the other size: the file as modified is the baseline.
C18_Witness ==
    /\ out.op = "toggle"
    /\ Running
    /\ now > 0
    /\ linked_files["/r/a"] # NoEntry
    /\ linked_files["/r/a"].last_modified = 101
    /\ linked_files["/r/a"].size = 60

\* C19: a check drops from linked_files every path its snapshot does not
\* hold; a path that is not in linked_files when a check runs gets no
\* reload() from it, whatever its stamp and size, and enters linked_files with
\* the values of the snapshot; a path in both is reloaded iff it changed.
C19_ReappearanceIsNew ==
    [][CheckStep =>
          \A p \in Paths :
             /\ Fresh[p] = NoEntry => linked_files'[p] = NoEntry
             /\ linked_files[p] = NoEntry =>
                   /\ p \notin ReloadedPaths(out')
                   /\ linked_files'[p] = Fresh[p]
             /\ (linked_files[p] # NoEntry /\ Fresh[p] # NoEntry) =>
                   (p \in ReloadedPaths(out') <=> p \in ChangedPaths(linked_files, Fresh))]_vars

\* A check ran while /r/a, linked by library 1, failed os.stat: the path is
\* not in linked_files, and nothing was reloaded for it.
C19_Witness ==
    /\ out.op \in {"tick", "force_check"}
    /\ out.op = "tick" => (Running /\ props.watch_mode = "AGGRESSIVE")
    /\ libPath[1] = "//a"
    /\ fs["/r/a"] = NoStat
    /\ linked_files["/r/a"] = NoEntry
    /\ "/r/a" \notin ReloadedPaths(out)

====
